---- MODULE Spec2Model ----
(***************************************************************************)
(* One call session of src/inbound-calls.js: the "/media-stream" handler   *)
(* that bridges the telephony (Twilio) socket `connection` and the agent   *)
(* (ElevenLabs) socket `elevenLabsWs`.  Every socket callback and timer    *)
(* callback of the handler is one action; Node runs them one at a time.    *)
(*                                                                         *)
(* Byte buffers are sequences over 0..255.  A base64 string is a sequence  *)
(* of sextets 0..63 with 64 standing for the pad character '='.            *)
(***************************************************************************)
EXTENDS Integers, Sequences, FiniteSets, TLC

\* ------------------------------------------------------------- bounds

\* Telephony `media` events the caller side delivers in one run.
MaxMedia == 1

\* Frames the agent side gets to append to outQueue in one run.
MaxEnq == 3

\* Longest raw buffer handed to enqueueELBase64 on its own.
MaxRawLen == 330

\* ------------------------------------------------- program constants

FRAME_BYTES == 160

Null == "null"

\* ---------------------------------------------------- buffer helpers

Min(a, b) == IF a < b THEN a ELSE b

Pow64(e) == IF e = 0 THEN 1 ELSE IF e = 1 THEN 64 ELSE IF e = 2 THEN 4096 ELSE 262144

Pow2(e) == IF e = 0 THEN 1 ELSE IF e = 2 THEN 4 ELSE IF e = 4 THEN 16
           ELSE IF e = 6 THEN 64 ELSE IF e = 8 THEN 256 ELSE 1024

\* buf.toString("base64"): three bytes to four sextets, '=' padded.
B64Encode(b) ==
    LET L == Len(b)
        n == 4 * ((L + 2) \div 3)
        byte(i) == IF i <= L THEN b[i] ELSE 0
        ch(k) == LET g == (k - 1) \div 4
                     j == (k - 1) % 4
                     v == byte(3 * g + 1) * 65536 + byte(3 * g + 2) * 256 + byte(3 * g + 3)
                 IN  IF (j = 2 /\ 3 * g + 2 > L) \/ (j = 3 /\ 3 * g + 3 > L)
                     THEN 64
                     ELSE (v \div Pow64(3 - j)) % 64
    IN  [k \in 1..n |-> ch(k)]

\* Buffer.from(s, "base64"): decoding stops at the first pad character and
\* a trailing partial group yields only its complete bytes.
B64Decode(s) ==
    LET pads == {k \in 1..Len(s) : s[k] = 64}
        n == IF pads = {} THEN Len(s)
             ELSE (CHOOSE k \in pads : \A q \in pads : k <= q) - 1
        outLen == (n * 6) \div 8
        sx(k) == IF k <= n THEN s[k] ELSE 0
        by(i) == LET o == (i - 1) * 8
                     q == (o \div 6) + 1
                     r == o % 6
                     v == sx(q) * 4096 + sx(q + 1) * 64 + sx(q + 2)
                 IN  (v \div Pow2(10 - r)) % 256
    IN  [i \in 1..outLen |-> by(i)]

\* ASCII "RIFF" and "data"
RIFF == <<82, 73, 70, 70>>

DATA == <<100, 97, 116, 97>>

\* buf.indexOf(pat): 0-based offset of the first occurrence, -1 if none.
IndexOf(buf, pat) ==
    LET hits == {i \in 0..(Len(buf) - Len(pat)) :
                    SubSeq(buf, i + 1, i + Len(pat)) = pat}
    IN  IF hits = {} THEN -1 ELSE CHOOSE i \in hits : \A j \in hits : i <= j

stripWaveIfNeeded(buf) ==
    IF Len(buf) >= 12 /\ SubSeq(buf, 1, 4) = RIFF
    THEN LET dataIdx == IndexOf(buf, DATA)
         IN  IF dataIdx > 0 /\ dataIdx + 8 <= Len(buf)
             THEN SubSeq(buf, dataIdx + 8 + 1, Len(buf))
             ELSE buf
    ELSE buf

\* A loop that queues whole frames only and leaves a shorter rest behind.
RECURSIVE SliceFramesWholeOnly(_, _)
SliceFramesWholeOnly(buf, i) ==
    IF i + FRAME_BYTES <= Len(buf)
    THEN <<B64Encode(SubSeq(buf, i + 1, i + FRAME_BYTES))>>
         \o SliceFramesWholeOnly(buf, i + FRAME_BYTES)
    ELSE <<>>

\* A loop that cuts every frame from the start of the buffer.
RECURSIVE SliceFramesFromStart(_, _)
SliceFramesFromStart(buf, i) ==
    IF i < Len(buf)
    THEN <<B64Encode(SubSeq(buf, 1, Min(FRAME_BYTES, Len(buf) - i)))>>
         \o SliceFramesFromStart(buf, i + FRAME_BYTES)
    ELSE <<>>

\* The for-loop of enqueueELBase64 from offset i: one base64 frame per
\* FRAME_BYTES slice, the last one possibly shorter.
RECURSIVE SliceFrames(_, _)
SliceFrames(buf, i) ==
    IF i < Len(buf)
    THEN <<B64Encode(SubSeq(buf, i + 1, Min(i + FRAME_BYTES, Len(buf))))>>
         \o SliceFrames(buf, i + FRAME_BYTES)
    ELSE <<>>

\* The frames enqueueELBase64(elBase64) pushes, in push order.
enqueueELBase64(elBase64) ==
    SliceFrames(stripWaveIfNeeded(B64Decode(elBase64)), 0)

\* ------------------------------- container normalizer (src/unnamed/part_000)

\* ASCII "WAVE", "fmt ", "ID3" and "OggS"
WAVE == <<87, 65, 86, 69>>

FMT == <<102, 109, 116, 32>>

ID3 == <<73, 68, 51>>

OGGS == <<79, 103, 103, 83>>

\* buf.slice(from, to): clamped to the buffer, 0-based, end exclusive.
Slice(buf, from, to) == SubSeq(buf, from + 1, Min(to, Len(buf)))

\* buf.readUInt16LE(off) and buf.readUInt32LE(off), for offsets in range.
ReadUInt16LE(buf, off) == buf[off + 1] + 256 * buf[off + 2]

ReadUInt32LE(buf, off) ==
    buf[off + 1] + 256 * buf[off + 2] + 65536 * buf[off + 3] + 16777216 * buf[off + 4]

\* A chunk walk that steps over no pad byte.
RECURSIVE WalkChunksUnpadded(_, _, _, _, _)
WalkChunksUnpadded(buf, pos, audioFormat, dataStart, dataSize) ==
    IF pos + 8 > Len(buf)
    THEN [threw |-> FALSE, audioFormat |-> audioFormat,
          dataStart |-> dataStart, dataSize |-> dataSize]
    ELSE LET chunkId == Slice(buf, pos, pos + 4)
             chunkSize == ReadUInt32LE(buf, pos + 4)
             chunkStart == pos + 8
             next == chunkStart + chunkSize
         IN  IF chunkId = FMT /\ chunkStart + 16 > Len(buf)
             THEN [threw |-> TRUE, audioFormat |-> audioFormat,
                   dataStart |-> dataStart, dataSize |-> dataSize]
             ELSE LET af == IF chunkId = FMT THEN ReadUInt16LE(buf, chunkStart)
                            ELSE audioFormat
                      ds == IF chunkId # FMT /\ chunkId = DATA THEN chunkStart ELSE dataStart
                      dz == IF chunkId # FMT /\ chunkId = DATA THEN chunkSize ELSE dataSize
                  IN  IF ds # -1 /\ af # -1
                      THEN [threw |-> FALSE, audioFormat |-> af,
                            dataStart |-> ds, dataSize |-> dz]
                      ELSE WalkChunksUnpadded(buf, next, af, ds, dz)

\* The while loop of parseWavAndExtractData from offset pos; -1 stands for
\* null.  threw: a read of the fmt fields ran past the end of the buffer
\* (readUInt16LE / readUInt32LE raise RangeError).
RECURSIVE WalkChunks(_, _, _, _, _)
WalkChunks(buf, pos, audioFormat, dataStart, dataSize) ==
    IF pos + 8 > Len(buf)
    THEN [threw |-> FALSE, audioFormat |-> audioFormat,
          dataStart |-> dataStart, dataSize |-> dataSize]
    ELSE LET chunkId == Slice(buf, pos, pos + 4)
             chunkSize == ReadUInt32LE(buf, pos + 4)
             chunkStart == pos + 8
             next == chunkStart + chunkSize + (chunkSize % 2)
         IN  IF chunkId = FMT /\ chunkStart + 16 > Len(buf)
             THEN [threw |-> TRUE, audioFormat |-> audioFormat,
                   dataStart |-> dataStart, dataSize |-> dataSize]
             ELSE LET af == IF chunkId = FMT THEN ReadUInt16LE(buf, chunkStart)
                            ELSE audioFormat
                      ds == IF chunkId # FMT /\ chunkId = DATA THEN chunkStart ELSE dataStart
                      dz == IF chunkId # FMT /\ chunkId = DATA THEN chunkSize ELSE dataSize
                  IN  IF ds # -1 /\ af # -1
                      THEN [threw |-> FALSE, audioFormat |-> af,
                            dataStart |-> ds, dataSize |-> dz]
                      ELSE WalkChunks(buf, next, af, ds, dz)

\* parseWavAndExtractData(wavBuf): threw when it raises (not a WAV, a fmt
\* read out of range, no data chunk), else the data bytes and the format tag.
parseWavAndExtractData(wavBuf) ==
    IF Slice(wavBuf, 0, 4) # RIFF \/ Slice(wavBuf, 8, 12) # WAVE
    THEN [threw |-> TRUE, data |-> <<>>, audioFormat |-> -1]
    ELSE LET w == WalkChunks(wavBuf, 12, -1, -1, -1)
         IN  IF w.threw \/ w.dataStart = -1
             THEN [threw |-> TRUE, data |-> <<>>, audioFormat |-> -1]
             ELSE [threw |-> FALSE,
                   data |-> Slice(wavBuf, w.dataStart, w.dataStart + w.dataSize),
                   audioFormat |-> w.audioFormat]

\* A frame-sync test that looks at the first byte only.
LooksLikeMp3ByFirstByte(buf) ==
    Len(buf) >= 3 /\ (Slice(buf, 0, 3) = ID3 \/ buf[1] = 255)

\* The tests of lines 46, 61 and 66 on the decoded bytes.
LooksLikeWav(buf) == Len(buf) >= 12 /\ Slice(buf, 0, 4) = RIFF /\ Slice(buf, 8, 12) = WAVE

LooksLikeMp3(buf) ==
    Len(buf) >= 3 /\ (Slice(buf, 0, 3) = ID3 \/ (buf[1] = 255 /\ buf[2] \div 32 = 7))

LooksLikeOgg(buf) == Len(buf) >= 4 /\ Slice(buf, 0, 4) = OGGS

\* ensureRawUlawBase64(inB64): threw when parseWavAndExtractData raises,
\* which nothing in the function catches; else ok, the base64 text returned
\* (<<>> when none is) and the reason or note.
ensureRawUlawBase64(inB64) ==
    IF inB64 = <<>>
    THEN [threw |-> FALSE, ok |-> FALSE, b64 |-> <<>>, why |-> "empty"]
    ELSE LET buf == B64Decode(inB64)
         IN  IF LooksLikeWav(buf)
             THEN LET info == parseWavAndExtractData(buf)
                  IN  IF info.threw
                      THEN [threw |-> TRUE, ok |-> FALSE, b64 |-> <<>>, why |-> "exception"]
                      ELSE IF info.audioFormat # 7
                      THEN [threw |-> FALSE, ok |-> FALSE, b64 |-> <<>>, why |-> "wav-not-ulaw"]
                      ELSE [threw |-> FALSE, ok |-> TRUE, b64 |-> B64Encode(info.data),
                            why |-> "stripped-wav"]
             ELSE IF LooksLikeMp3(buf)
             THEN [threw |-> FALSE, ok |-> FALSE, b64 |-> <<>>, why |-> "mp3-container"]
             ELSE IF LooksLikeOgg(buf)
             THEN [threw |-> FALSE, ok |-> FALSE, b64 |-> <<>>, why |-> "ogg-container"]
             ELSE [threw |-> FALSE, ok |-> TRUE, b64 |-> inB64, why |-> "raw"]

\* ------------------------------------------------------------- inputs

\* A deterministic, signature-free byte pattern of L bytes.
Raw(seed, L) == [i \in 1..L |-> (seed * 37 + i) % 200]

\* Little-endian fields and chunks of a RIFF file.
LE16(n) == <<n % 256, (n \div 256) % 256>>

LE32(n) == <<n % 256, (n \div 256) % 256, (n \div 65536) % 256, (n \div 16777216) % 256>>

LIST == <<76, 73, 83, 84>>

FACT == <<102, 97, 99, 116>>

\* id, size, body and the pad byte of an odd-sized body.
Chunk(id, body) ==
    id \o LE32(Len(body)) \o body \o (IF Len(body) % 2 = 1 THEN <<0>> ELSE <<>>)

\* A 16-byte fmt body: format tag, mono, 8000 Hz, 8 bits.
FmtBody(tag) == LE16(tag) \o LE16(1) \o LE32(8000) \o LE32(8000) \o LE16(1) \o LE16(8)

\* A WAV described by its chunk order, format tag and data bytes.
ChunkOf(name, w) ==
    CASE name = "fmt" -> Chunk(FMT, FmtBody(w.tag))
      [] name = "data" -> Chunk(DATA, w.x)
      [] name = "LIST" -> Chunk(LIST, <<73, 78, 70, 79, 1>>)
      [] name = "fact" -> Chunk(FACT, LE32(Len(w.x)))

RECURSIVE WavChunks(_, _)
WavChunks(layout, w) ==
    IF layout = <<>> THEN <<>>
    ELSE ChunkOf(Head(layout), w) \o WavChunks(Tail(layout), w)

WavFile(w) ==
    LET body == WavChunks(w.layout, w)
    IN  RIFF \o LE32(4 + Len(body)) \o WAVE \o body

\* Well-formed WAVs: fmt and data in either order, among other chunks.
WavLayouts ==
    { <<"fmt", "data">>, <<"data", "fmt">>, <<"fmt", "LIST", "data">>,
      <<"LIST", "fmt", "data">>, <<"fmt", "data", "LIST">>, <<"data", "LIST", "fmt">>,
      <<"fmt", "fact", "LIST", "data">> }

WavCases ==
    [layout : WavLayouts, tag : {7, 1, 6, 65534},
     x : {Raw(5, 320), Raw(6, 7), Raw(7, 1), <<>>}]

\* Buffers that are not well-formed WAVs: WAVs without a data chunk, without
\* a fmt chunk, with a fmt chunk cut short, RIFF files that are not WAVE, MP3
\* and Ogg signatures of several lengths, and raw samples.
OtherBuffers ==
    { WavFile([layout |-> <<"fmt">>, tag |-> 7, x |-> <<>>]),
      WavFile([layout |-> <<"LIST">>, tag |-> 7, x |-> <<>>]),
      WavFile([layout |-> <<>>, tag |-> 7, x |-> <<>>]),
      WavFile([layout |-> <<"data">>, tag |-> 7, x |-> Raw(5, 8)]),
      RIFF \o LE32(16) \o WAVE \o FMT \o LE32(16) \o LE16(7) \o LE16(1),
      RIFF \o LE32(12) \o <<65, 86, 73, 32>> \o Raw(1, 8),
      RIFF,
      ID3 \o Raw(4, 97),
      ID3,
      <<255, 251>> \o Raw(4, 98),
      <<255, 251, 144>>,
      <<255, 251>>,
      <<255, 255, 255, 255, 255, 255>>,
      <<255, 127, 255, 127>>,
      <<255>>,
      OGGS \o Raw(4, 96),
      OGGS,
      <<79, 103, 103>>,
      <<73, 68>>,
      <<>> }
    \cup {Raw(1, L) : L \in {1, 2, 3, 4, 11, 12, 13, 160}}

\* Agent audio payloads, base64 as the agent sends them.
AudioA == B64Encode(Raw(1, 400))

AudioB == B64Encode(Raw(2, 100))

\* The payload of the k-th telephony media event (media.chunk = k).
CallerPayload(k) == B64Encode([i \in 1..(k + 1) |-> (k * 50 + i) % 256])

\* The payload the agent of the second connection sends.
AudioC == B64Encode(Raw(3, 200))

\* Agent audio payloads that are containers, each with the bytes X of its
\* data chunk: MP3 (ID3 tag, bare frame sync), Ogg, and WAVs of several chunk
\* layouts and format tags.
WavPayload(layout, tag, x) == B64Encode(WavFile([layout |-> layout, tag |-> tag, x |-> x]))

ContainerCases ==
    { [kind |-> "mp3", b64 |-> B64Encode(ID3 \o Raw(4, 97)), x |-> <<>>],
      [kind |-> "mp3", b64 |-> B64Encode(<<255, 251>> \o Raw(4, 98)), x |-> <<>>],
      [kind |-> "ogg", b64 |-> B64Encode(OGGS \o Raw(4, 96)), x |-> <<>>],
      [kind |-> "wav-other", b64 |-> WavPayload(<<"fmt", "data">>, 1, Raw(5, 320)),
       x |-> Raw(5, 320)],
      [kind |-> "wav", b64 |-> WavPayload(<<"fmt", "data">>, 7, Raw(5, 320)),
       x |-> Raw(5, 320)],
      [kind |-> "wav", b64 |-> WavPayload(<<"fmt", "data", "LIST">>, 7, Raw(5, 320)),
       x |-> Raw(5, 320)],
      [kind |-> "wav", b64 |-> WavPayload(<<"data", "fmt">>, 7, Raw(5, 320)),
       x |-> Raw(5, 320)],
      [kind |-> "wav", b64 |-> WavPayload(<<"fmt", "LIST", "data">>, 7, Raw(6, 7)),
       x |-> Raw(6, 7)] }

ContainerPayloads == {c.b64 : c \in ContainerCases}

AudioPayloads == {AudioA, AudioB, AudioC} \cup ContainerPayloads

\* enqueueELBase64 on each payload the agent can send, computed once.
EnqueueTable == [b \in AudioPayloads |-> enqueueELBase64(b)]

\* Buffer.from(b64, "base64") for each frame enqueueELBase64 can push.
FrameRaw ==
    [f \in UNION {{EnqueueTable[b][i] : i \in 1..Len(EnqueueTable[b])} : b \in AudioPayloads}
        |-> B64Decode(f)]

\* A parsed agent message: the fields the handler reads.  An absent string
\* field and an empty one are both <<>> (the handler tests truthiness);
\* json = FALSE is a text JSON.parse rejects.
ELBase ==
    [json |-> TRUE, type |-> "", event |-> "", cim |-> FALSE, cime |-> FALSE,
     audio_event |-> <<>>, agent_audio_chunk |-> <<>>, audio_base64 |-> <<>>,
     audio_chunk |-> <<>>, audio_b64 |-> <<>>, ping_id |-> 0]

ELMessages ==
    { [ELBase EXCEPT !.json = FALSE],
      [ELBase EXCEPT !.type = "conversation_initiation_metadata"],
      [ELBase EXCEPT !.event = "conversation_initiation_metadata"],
      [ELBase EXCEPT !.cim = TRUE],
      [ELBase EXCEPT !.cime = TRUE],
      [ELBase EXCEPT !.type = "audio", !.audio_event = AudioA],
      [ELBase EXCEPT !.type = "audio", !.audio_event = AudioB],
      [ELBase EXCEPT !.type = "audio"],
      [ELBase EXCEPT !.agent_audio_chunk = AudioB],
      [ELBase EXCEPT !.audio_base64 = AudioB],
      [ELBase EXCEPT !.audio_chunk = AudioB],
      [ELBase EXCEPT !.audio_b64 = AudioB],
      [ELBase EXCEPT !.type = "conversation_initiation_metadata", !.agent_audio_chunk = AudioB],
      [ELBase EXCEPT !.type = "interruption"],
      [ELBase EXCEPT !.type = "ping", !.ping_id = 7],
      [ELBase EXCEPT !.type = "agent_response"] }

\* A parsed telephony message: hasStart / hasMedia say whether data.start /
\* data.media exist, startSid is data.start.streamSid (Null when the start
\* object carries none).
TwBase ==
    [json |-> TRUE, event |-> "", hasStart |-> FALSE, startSid |-> Null,
     hasMedia |-> FALSE, payload |-> <<>>]

TwilioMessages(k) ==
    { [TwBase EXCEPT !.json = FALSE],
      [TwBase EXCEPT !.event = "start", !.hasStart = TRUE, !.startSid = "CA123"],
      [TwBase EXCEPT !.event = "start", !.hasStart = TRUE],
      [TwBase EXCEPT !.event = "start"],
      [TwBase EXCEPT !.event = "media", !.hasMedia = TRUE, !.payload = CallerPayload(k)],
      [TwBase EXCEPT !.event = "stop"],
      [TwBase EXCEPT !.event = "mark"] }

\* req.query of the upgrade request: each field "" when absent.
Queries ==
    { [Date |-> "", Time |-> "09:30", Name |-> "", Contact_Details |-> "ada@example.org"] }

\* -------------------------------------------------------------- state

VARIABLES
    pc,            \* "awaitUrl": inside await getSignedUrl(); "running": handlers
                   \* registered; "failed": the catch block ran
    telState,      \* connection.readyState
    elState,       \* elevenLabsWs.readyState, "NONE" while elevenLabsWs is null
    outQueue,      \* base64 frames awaiting the pacer
    streamSid,
    stats,
    pacerTimer,    \* TRUE while the pacer interval is set
    pacerIntervals, \* setInterval timers startPacer created that no clearInterval cancelled
    statsTimer,    \* TRUE while the diagnostics interval is set
    convoReady,
    elReadyFallbackTimer,  \* "unset" | "pending" | "fired" | "cleared"
    dynVars,       \* DateVar, TimeVar, NameVar, ContactVar
    peer,          \* the same closure variables of a second, concurrent connection
    call,          \* the audio helper called last, with its argument and outcome
    telSent,       \* messages passed to connection.send, in order
    elSent,        \* messages passed to elevenLabsWs.send, in order
    chunkNo,       \* media events the telephony side has sent
    enqueued,      \* every frame ever pushed to outQueue, in push order
    dropped,       \* payloads of media events handled while convoReady was false
    last           \* the callback that ran last, with its input

vars == <<pc, telState, elState, outQueue, streamSid, stats, pacerTimer, pacerIntervals, statsTimer,
          convoReady, elReadyFallbackTimer, dynVars, peer, call, telSent, elSent, chunkNo,
          enqueued, dropped, last>>

\* Everything but `last`.
session == <<pc, telState, elState, outQueue, streamSid, stats, pacerTimer, pacerIntervals, statsTimer,
             convoReady, elReadyFallbackTimer, dynVars, peer, call, telSent, elSent, chunkNo,
             enqueued, dropped>>

DynamicVars(q) ==
    [Date |-> IF q.Date # "" THEN q.Date ELSE "today",
     Time |-> IF q.Time # "" THEN q.Time ELSE "now",
     Name |-> IF q.Name # "" THEN q.Name ELSE "Caller",
     Contact_Details |-> IF q.Contact_Details # "" THEN q.Contact_Details ELSE ""]

\* The closure variables of the second connection as its handler is entered.
PeerInit ==
    [pc |-> "awaitUrl", telState |-> "OPEN", elState |-> "NONE", outQueue |-> <<>>,
     streamSid |-> Null, pacerTimer |-> FALSE, convoReady |-> FALSE,
     telSent |-> <<>>, enqueued |-> <<>>]

Init ==
    /\ pc = "awaitUrl"
    /\ telState = "OPEN"
    /\ elState = "NONE"
    /\ outQueue = <<>>
    /\ streamSid = Null
    /\ stats = [twilioMediaInFrames |-> 0, forwardedToELBytes |-> 0,
                elAudioFrames |-> 0, forwardedToTwilioBytes |-> 0]
    /\ pacerTimer = FALSE
    /\ pacerIntervals = 0
    /\ statsTimer = TRUE
    /\ convoReady = FALSE
    /\ elReadyFallbackTimer = "unset"
    /\ \E q \in Queries : dynVars = DynamicVars(q)
    /\ peer = PeerInit
    /\ call = [fn |-> "none"]
    /\ telSent = <<>>
    /\ elSent = <<>>
    /\ chunkNo = 0
    /\ enqueued = <<>>
    /\ dropped = {}
    /\ last = [h |-> "connect"]

\* ---------------------------------------------------- socket helpers

\* ws.close(): starts the closing handshake of a socket that is connecting
\* or open; a socket already closing or closed, or no socket, is left alone.
WsClose(st) == IF st \in {"CONNECTING", "OPEN"} THEN "CLOSING" ELSE st

TelMedia(sid, b64) == [event |-> "media", streamSid |-> sid, payload |-> b64]

ElClientData(dv) ==
    [kind |-> "conversation_initiation_client_data", vars |-> dv, chunk |-> <<>>, event_id |-> 0]

ElUserAudio(b64) == [kind |-> "user_audio_chunk", vars |-> <<>>, chunk |-> b64, event_id |-> 0]

ElPong(id) == [kind |-> "pong", vars |-> <<>>, chunk |-> <<>>, event_id |-> id]

TelClear(sid) == [event |-> "clear", streamSid |-> sid, payload |-> <<>>]

\* ------------------------------------------- session setup (lines 131-349)

\* A catch block that logs and leaves the telephony socket open.
InitFailsOnlyLogs(why) ==
    /\ pc = "awaitUrl"
    /\ pc' = "failed"
    /\ last' = [h |-> "initFails", why |-> why]
    /\ UNCHANGED <<telState, elState, outQueue, streamSid, stats, pacerTimer,
                   pacerIntervals, statsTimer, convoReady, elReadyFallbackTimer,
                   dynVars, peer, call, telSent, elSent, chunkNo, enqueued, dropped>>

\* await getSignedUrl() rejects, or new URL / new WebSocket throws: the
\* catch block runs with elevenLabsWs still null and closes the telephony
\* socket.  No message, close or error handler of the try block exists.
InitFails(why) ==
    /\ pc = "awaitUrl"
    /\ pc' = "failed"
    /\ telState' = WsClose(telState)
    /\ last' = [h |-> "initFails", why |-> why]
    /\ UNCHANGED <<elState, outQueue, streamSid, stats, pacerTimer, pacerIntervals, statsTimer,
                   convoReady, elReadyFallbackTimer, dynVars, peer, call, telSent, elSent,
                   chunkNo, enqueued, dropped>>

\* getSignedUrl() resolves: the agent socket is created, every handler of
\* the try block is registered and the fallback timer is armed.
InitOk ==
    /\ pc = "awaitUrl"
    /\ pc' = "running"
    /\ elState' = "CONNECTING"
    /\ elReadyFallbackTimer' = "pending"
    /\ last' = [h |-> "initOk"]
    /\ UNCHANGED <<telState, outQueue, streamSid, stats, pacerTimer, pacerIntervals, statsTimer,
                   convoReady, dynVars, peer, call, telSent, elSent, chunkNo, enqueued, dropped>>

\* --------------------------------------------------------------- pacer

startPacer == IF pacerTimer THEN pacerTimer ELSE TRUE

stopPacer == IF ~pacerTimer THEN pacerTimer ELSE FALSE

\* A startPacer without its `if (pacerTimer) return`.
IntervalsAfterUnguardedStart == pacerIntervals + 1

\* The live intervals after startPacer(): setInterval runs only past the
\* `if (pacerTimer) return`.
IntervalsAfterStart == IF pacerTimer THEN pacerIntervals ELSE pacerIntervals + 1

\* The live intervals after stopPacer(): clearInterval(pacerTimer) cancels
\* the one interval the handle names.
IntervalsAfterStop == IF ~pacerTimer THEN pacerIntervals ELSE pacerIntervals - 1

\* A pacer that does not test streamSid before it shifts the queue.
PacerStepAnySid ==
    IF telState # "OPEN" THEN [queue |-> outQueue, sends |-> <<>>]
    ELSE IF outQueue = <<>> THEN [queue |-> outQueue, sends |-> <<>>]
    ELSE [queue |-> Tail(outQueue),
          sends |-> <<TelMedia(streamSid, Head(outQueue))>>]

\* A pacer that takes the newest frame (pop) instead of the oldest (shift).
PacerStepPop ==
    IF telState # "OPEN" \/ streamSid = Null \/ outQueue = <<>>
    THEN [queue |-> outQueue, sends |-> <<>>]
    ELSE [queue |-> SubSeq(outQueue, 1, Len(outQueue) - 1),
          sends |-> <<TelMedia(streamSid, outQueue[Len(outQueue)])>>]

\* One run of the interval callback: what it leaves in outQueue and what
\* it passes to connection.send (nothing, or the frame shifted off the front).
PacerStep ==
    IF telState # "OPEN" THEN [queue |-> outQueue, sends |-> <<>>]
    ELSE IF streamSid = Null THEN [queue |-> outQueue, sends |-> <<>>]
    ELSE IF outQueue = <<>> THEN [queue |-> outQueue, sends |-> <<>>]
    ELSE IF Head(outQueue) = <<>> THEN [queue |-> Tail(outQueue), sends |-> <<>>]
    ELSE [queue |-> Tail(outQueue),
          sends |-> <<TelMedia(streamSid, Head(outQueue))>>]

\* An interval callback without the try / catch: the exception of a failed
\* send leaves the callback and takes the timer with it.
PacerTickUncaught(threw) ==
    /\ pacerIntervals > 0
    /\ threw => PacerStep.sends # <<>>
    /\ outQueue' = PacerStep.queue
    /\ telSent' = IF threw THEN telSent ELSE telSent \o PacerStep.sends
    /\ stats' = stats
    /\ pacerTimer' = IF threw THEN FALSE ELSE pacerTimer
    /\ pacerIntervals' = IF threw THEN 0 ELSE pacerIntervals
    /\ last' = [h |-> "pacerTick", threw |-> threw]
    /\ UNCHANGED <<pc, telState, elState, streamSid, statsTimer,
                   convoReady, elReadyFallbackTimer, dynVars, peer, call, elSent, chunkNo,
                   enqueued, dropped>>

\* An interval callback that puts the frame back at the front of the queue
\* when its send throws.
PacerTickRetrying(threw) ==
    /\ pacerIntervals > 0
    /\ threw => PacerStep.sends # <<>>
    /\ outQueue' = IF threw THEN outQueue ELSE PacerStep.queue
    /\ telSent' = IF threw THEN telSent ELSE telSent \o PacerStep.sends
    /\ stats' = IF threw \/ PacerStep.sends = <<>> THEN stats
                ELSE [stats EXCEPT !.forwardedToTwilioBytes =
                                       @ + Len(FrameRaw[PacerStep.sends[1].payload])]
    /\ last' = [h |-> "pacerTick", threw |-> threw]
    /\ UNCHANGED <<pc, telState, elState, streamSid, pacerTimer, pacerIntervals,
                   statsTimer,
                   convoReady, elReadyFallbackTimer, dynVars, peer, call, elSent, chunkNo,
                   enqueued, dropped>>

\* The setInterval callback of startPacer, once for every live interval.
\* threw: connection.send threw; the catch of line 85 logs it, with the frame
\* already shifted off the queue and the byte counter not yet updated.  ws
\* does not throw from send on a socket whose readyState is OPEN, which line
\* 73 has just tested: Next takes threw = FALSE, FaultNext injects the throw.
PacerTick(threw) ==
    /\ pacerIntervals > 0
    /\ threw => PacerStep.sends # <<>>
    /\ outQueue' = PacerStep.queue
    /\ telSent' = IF threw THEN telSent ELSE telSent \o PacerStep.sends
    /\ stats' = IF threw \/ PacerStep.sends = <<>> THEN stats
                ELSE [stats EXCEPT !.forwardedToTwilioBytes =
                                       @ + Len(FrameRaw[PacerStep.sends[1].payload])]
    /\ last' = [h |-> "pacerTick", threw |-> threw]
    /\ UNCHANGED <<pc, telState, elState, streamSid, pacerTimer, pacerIntervals,
                   statsTimer,
                   convoReady, elReadyFallbackTimer, dynVars, peer, call, elSent, chunkNo,
                   enqueued, dropped>>

\* The diagnostics interval: logs the counters.
StatsTick ==
    /\ statsTimer
    /\ last' = [h |-> "statsTick"]
    /\ UNCHANGED session

\* --------------------------------------------------------- agent socket

\* An open handler that sends nothing.
ELOpenSilent ==
    /\ pc = "running"
    /\ elState = "CONNECTING"
    /\ elState' = "OPEN"
    /\ last' = [h |-> "elOpen"]
    /\ UNCHANGED <<pc, telState, outQueue, streamSid, stats, pacerTimer, pacerIntervals,
                   statsTimer, convoReady, elReadyFallbackTimer, dynVars, peer, call,
                   telSent, elSent, chunkNo, enqueued, dropped>>

\* elevenLabsWs.on("open")
ELOpen ==
    /\ pc = "running"
    /\ elState = "CONNECTING"
    /\ elState' = "OPEN"
    /\ elSent' = Append(elSent, ElClientData(dynVars))
    /\ last' = [h |-> "elOpen"]
    /\ UNCHANGED <<pc, telState, outQueue, streamSid, stats, pacerTimer, pacerIntervals, statsTimer,
                   convoReady, elReadyFallbackTimer, dynVars, peer, call, telSent, chunkNo,
                   enqueued, dropped>>

\* The shape test of a handler that switches on msg.type alone.
IsInitiationMetadataByType(msg) == msg.type = "conversation_initiation_metadata"

\* The readiness branch's test on the message shape.
IsInitiationMetadata(msg) ==
    \/ msg.type = "conversation_initiation_metadata"
    \/ msg.event = "conversation_initiation_metadata"
    \/ msg.cim
    \/ msg.cime

\* The audio branch's if / else-if chain: the payload, <<>> for none.
ExtractAudio(msg) ==
    IF msg.type = "audio" /\ msg.audio_event # <<>> THEN msg.audio_event
    ELSE IF msg.agent_audio_chunk # <<>> THEN msg.agent_audio_chunk
    ELSE IF msg.audio_base64 # <<>> THEN msg.audio_base64
    ELSE IF msg.audio_chunk # <<>> THEN msg.audio_chunk
    ELSE msg.audio_b64

\* The flag assigned from the shape test instead of latched.
ReadyAssignedFromShape(msg) == IsInitiationMetadata(msg)

\* convoReady after the message handler has seen msg.
ReadyAfterMessage(msg) ==
    IF ~convoReady /\ IsInitiationMetadata(msg) THEN TRUE ELSE convoReady

\* A handler that empties outQueue on an interruption message.
ELMessageClearingQueue(msg) ==
    /\ pc = "running"
    /\ elState = "OPEN"
    /\ LET b64 == IF msg.json THEN ExtractAudio(msg) ELSE <<>>
           frames == IF b64 # <<>> THEN EnqueueTable[b64] ELSE <<>>
       IN  /\ Len(enqueued) + Len(frames) <= MaxEnq
           /\ convoReady' = IF msg.json THEN ReadyAfterMessage(msg) ELSE convoReady
           /\ outQueue' = IF msg.json /\ msg.type = "interruption" THEN <<>>
                          ELSE outQueue \o frames
           /\ enqueued' = enqueued \o frames
           /\ stats' = IF b64 # <<>>
                       THEN [stats EXCEPT !.elAudioFrames = @ + 1]
                       ELSE stats
    /\ last' = [h |-> "elMessage", msg |-> msg]
    /\ UNCHANGED <<pc, telState, elState, streamSid, pacerTimer, pacerIntervals, statsTimer,
                   elReadyFallbackTimer, dynVars, peer, call, telSent, elSent, chunkNo, dropped>>

\* elevenLabsWs.on("message")
ELMessage(msg) ==
    /\ pc = "running"
    /\ elState = "OPEN"
    /\ LET b64 == IF msg.json THEN ExtractAudio(msg) ELSE <<>>
           frames == IF b64 # <<>> THEN EnqueueTable[b64] ELSE <<>>
       IN  /\ Len(enqueued) + Len(frames) <= MaxEnq
           /\ convoReady' = IF msg.json THEN ReadyAfterMessage(msg) ELSE convoReady
           /\ outQueue' = outQueue \o frames
           /\ enqueued' = enqueued \o frames
           /\ stats' = IF b64 # <<>>
                       THEN [stats EXCEPT !.elAudioFrames = @ + 1]
                       ELSE stats
    /\ last' = [h |-> "elMessage", msg |-> msg]
    /\ UNCHANGED <<pc, telState, elState, streamSid, pacerTimer, pacerIntervals, statsTimer,
                   elReadyFallbackTimer, dynVars, peer, call, telSent, elSent, chunkNo, dropped>>

\* A fallback callback that only logs.
FallbackTimerOnlyLogs ==
    /\ elReadyFallbackTimer = "pending"
    /\ elReadyFallbackTimer' = "fired"
    /\ last' = [h |-> "fallbackTimer"]
    /\ UNCHANGED <<pc, telState, elState, outQueue, streamSid, stats, pacerTimer, pacerIntervals,
                   statsTimer, convoReady, dynVars, peer, call, telSent, elSent, chunkNo,
                   enqueued, dropped>>

\* The setTimeout callback armed at line 203.
FallbackTimerFires ==
    /\ elReadyFallbackTimer = "pending"
    /\ elReadyFallbackTimer' = "fired"
    /\ convoReady' = IF ~convoReady THEN TRUE ELSE convoReady
    /\ last' = [h |-> "fallbackTimer"]
    /\ UNCHANGED <<pc, telState, elState, outQueue, streamSid, stats, pacerTimer, pacerIntervals,
                   statsTimer, dynVars, peer, call, telSent, elSent, chunkNo, enqueued, dropped>>

\* clearTimeout(elReadyFallbackTimer)
ClearFallback == IF elReadyFallbackTimer = "pending" THEN "cleared" ELSE elReadyFallbackTimer

\* elevenLabsWs.on("error"): ws moves the socket to CLOSING before it emits.
ELError ==
    /\ pc = "running"
    /\ elState \in {"CONNECTING", "OPEN", "CLOSING"}
    /\ elState' = "CLOSING"
    /\ elReadyFallbackTimer' = ClearFallback
    /\ last' = [h |-> "elError"]
    /\ UNCHANGED <<pc, telState, outQueue, streamSid, stats, pacerTimer, pacerIntervals, statsTimer,
                   convoReady, dynVars, peer, call, telSent, elSent, chunkNo, enqueued, dropped>>

\* elevenLabsWs.on("close")
ELClose ==
    /\ pc = "running"
    /\ elState \in {"OPEN", "CLOSING"}
    /\ elState' = "CLOSED"
    /\ elReadyFallbackTimer' = ClearFallback
    /\ last' = [h |-> "elClose"]
    /\ UNCHANGED <<pc, telState, outQueue, streamSid, stats, pacerTimer, pacerIntervals, statsTimer,
                   convoReady, dynVars, peer, call, telSent, elSent, chunkNo, enqueued, dropped>>

\* ----------------------------------------------------- telephony socket

\* What the telephony message handler can write.
twilioWrites == <<streamSid, pacerTimer, pacerIntervals, elSent, stats, outQueue, telSent>>

GateOpenIgnoringReady == elState # "NONE" /\ elState = "OPEN"

\* A test that looks at the gate only, not at the socket.
GateOpenIgnoringSocket == convoReady

\* The test both `if`s of case "media" make.
GateOpen == convoReady /\ elState # "NONE" /\ elState = "OPEN"

\* The earlier variant of case "start": flush the whole queue at once.
OnStartFlushing(data) ==
    IF ~data.hasStart
    THEN UNCHANGED twilioWrites
    ELSE /\ streamSid' = data.startSid
         /\ telSent' = telSent \o [i \in 1..Len(outQueue) |-> [event |-> "media", streamSid |-> data.startSid, payload |-> outQueue[i]]]
         /\ outQueue' = <<>>
         /\ pacerTimer' = startPacer
         /\ pacerIntervals' = IntervalsAfterStart
         /\ UNCHANGED <<elSent, stats>>

\* case "start"
OnStart(data) ==
    IF ~data.hasStart
    THEN \* data.start.streamSid throws; the catch logs it
         UNCHANGED twilioWrites
    ELSE /\ streamSid' = data.startSid
         /\ pacerTimer' = startPacer
         /\ pacerIntervals' = IntervalsAfterStart
         /\ UNCHANGED <<elSent, stats, outQueue, telSent>>

\* case "media": two guarded blocks, each forwarding the payload once; the
\* second one also counts it.
OnMedia(data) ==
    IF ~GateOpen
    THEN UNCHANGED twilioWrites
    ELSE IF ~data.hasMedia
    THEN \* data.media.payload throws inside the first block
         UNCHANGED twilioWrites
    ELSE LET buf == B64Decode(data.payload)
         IN  /\ elSent' = elSent \o <<ElUserAudio(B64Encode(buf)), ElUserAudio(B64Encode(buf))>>
             /\ stats' = [stats EXCEPT !.twilioMediaInFrames = @ + 1,
                                       !.forwardedToELBytes = @ + Len(buf)]
             /\ UNCHANGED <<streamSid, pacerTimer, pacerIntervals, outQueue, telSent>>

\* A stop that only logs.
OnStopOnlyLogs == UNCHANGED twilioWrites

\* A stop that also throws the queued frames away.
OnStopDiscarding ==
    /\ pacerTimer' = stopPacer
    /\ pacerIntervals' = IntervalsAfterStop
    /\ outQueue' = <<>>
    /\ UNCHANGED <<streamSid, elSent, stats, telSent>>

\* case "stop"
OnStop ==
    /\ pacerTimer' = stopPacer
    /\ pacerIntervals' = IntervalsAfterStop
    /\ UNCHANGED <<streamSid, elSent, stats, outQueue, telSent>>

\* A handler that does not catch the parse failure and stops the pacer in
\* its default case.
TwilioMessageDefaultStops(data) ==
    /\ telState = "OPEN"
    /\ IF data.event = "media" /\ data.hasMedia
       THEN chunkNo < MaxMedia /\ chunkNo' = chunkNo + 1
       ELSE UNCHANGED chunkNo
    /\ IF pc # "running"
       THEN UNCHANGED twilioWrites
       ELSE CASE data.event = "start" -> OnStart(data)
              [] data.event = "media" -> OnMedia(data)
              [] OTHER -> OnStop
    /\ dropped' = IF data.json /\ data.event = "media" /\ data.hasMedia /\ ~convoReady
                  THEN dropped \cup {data.payload}
                  ELSE dropped
    /\ last' = [h |-> "twilioMessage", msg |-> data, pacing |-> pacerTimer]
    /\ UNCHANGED <<pc, telState, elState, convoReady, elReadyFallbackTimer,
                   statsTimer, dynVars, peer, call, enqueued>>

\* A text message on the telephony socket.  connection.on("message") is
\* registered only once getSignedUrl() has resolved: before that, and after
\* the catch block, the message finds no listener.
TwilioMessage(data) ==
    /\ telState = "OPEN"
    /\ IF data.event = "media" /\ data.hasMedia
       THEN chunkNo < MaxMedia /\ chunkNo' = chunkNo + 1
       ELSE UNCHANGED chunkNo
    /\ IF pc # "running" \/ ~data.json
       THEN UNCHANGED twilioWrites
       ELSE CASE data.event = "start" -> OnStart(data)
              [] data.event = "media" -> OnMedia(data)
              [] data.event = "stop" -> OnStop
              [] OTHER -> UNCHANGED twilioWrites
    /\ dropped' = IF data.json /\ data.event = "media" /\ data.hasMedia /\ ~convoReady
                  THEN dropped \cup {data.payload}
                  ELSE dropped
    /\ last' = [h |-> "twilioMessage", msg |-> data, pacing |-> pacerTimer]
    /\ UNCHANGED <<pc, telState, elState, convoReady, elReadyFallbackTimer,
                   statsTimer, dynVars, peer, call, enqueued>>

\* connection "close": the diagnostics listener of line 121 always runs,
\* the listener of line 330 only if it was registered.
TwilioClose ==
    /\ telState \in {"OPEN", "CLOSING"}
    /\ telState' = "CLOSED"
    /\ statsTimer' = FALSE
    /\ pacerTimer' = IF pc = "running" THEN stopPacer ELSE pacerTimer
    /\ pacerIntervals' = IF pc = "running" THEN IntervalsAfterStop ELSE pacerIntervals
    /\ last' = [h |-> "twilioClose"]
    /\ UNCHANGED <<pc, elState, outQueue, streamSid, stats, convoReady,
                   elReadyFallbackTimer, dynVars, peer, call, telSent, elSent, chunkNo,
                   enqueued, dropped>>

\* An error handler that only logs.
TwilioErrorOnlyLogs ==
    /\ pc = "running"
    /\ telState = "OPEN"
    /\ telState' = "CLOSING"
    /\ last' = [h |-> "twilioError"]
    /\ UNCHANGED <<pc, elState, outQueue, streamSid, stats, pacerTimer, pacerIntervals,
                   statsTimer, convoReady, elReadyFallbackTimer, dynVars, peer, call, telSent,
                   elSent, chunkNo, enqueued, dropped>>

\* connection.on("error"): ws moves the socket to CLOSING before it emits.
TwilioError ==
    /\ pc = "running"
    /\ telState = "OPEN"
    /\ telState' = "CLOSING"
    /\ elState' = WsClose(elState)
    /\ last' = [h |-> "twilioError"]
    /\ UNCHANGED <<pc, outQueue, streamSid, stats, pacerTimer, pacerIntervals, statsTimer, convoReady,
                   elReadyFallbackTimer, dynVars, peer, call, telSent, elSent, chunkNo,
                   enqueued, dropped>>

\* ------------------------------------------------ a second connection

\* The first connection's closure variables and send logs.
own == <<pc, telState, elState, outQueue, streamSid, stats, pacerTimer, pacerIntervals,
         statsTimer, convoReady, elReadyFallbackTimer, dynVars, call, telSent, elSent,
         chunkNo, enqueued, dropped>>

\* What the second connection's agent and telephony sides send.
PeerFeed ==
    { [ELBase EXCEPT !.type = "conversation_initiation_metadata"],
      [ELBase EXCEPT !.agent_audio_chunk = AudioC] }

PeerControl ==
    { [TwBase EXCEPT !.event = "start", !.hasStart = TRUE, !.startSid = "CA456"],
      [TwBase EXCEPT !.event = "stop"] }

\* getSignedUrl() resolves for the second connection.
PeerInitOk ==
    /\ peer.pc = "awaitUrl"
    /\ peer' = [peer EXCEPT !.pc = "running", !.elState = "CONNECTING"]
    /\ last' = [h |-> "peer", ev |-> "initOk"]
    /\ UNCHANGED own

PeerELOpen ==
    /\ peer.pc = "running"
    /\ peer.elState = "CONNECTING"
    /\ peer' = [peer EXCEPT !.elState = "OPEN"]
    /\ last' = [h |-> "peer", ev |-> "elOpen"]
    /\ UNCHANGED own

\* An agent message handler whose queue is one module-level array.
PeerELMessageSharedQueue(msg) ==
    /\ peer.pc = "running"
    /\ peer.elState = "OPEN"
    /\ LET b64 == ExtractAudio(msg)
           frames == IF b64 # <<>> THEN EnqueueTable[b64] ELSE <<>>
       IN  /\ frames # <<>> => peer.enqueued = <<>>
           /\ peer' = [peer EXCEPT
                         !.convoReady = IF ~@ /\ IsInitiationMetadata(msg) THEN TRUE ELSE @,
                         !.enqueued = @ \o frames]
           /\ outQueue' = outQueue \o frames
    /\ last' = [h |-> "peer", ev |-> "elMessage"]
    /\ UNCHANGED <<pc, telState, elState, streamSid, stats, pacerTimer, pacerIntervals,
                   statsTimer, convoReady, elReadyFallbackTimer, dynVars, call, telSent,
                   elSent, chunkNo, enqueued, dropped>>

\* elevenLabsWs.on("message") of the second connection.
PeerELMessage(msg) ==
    /\ peer.pc = "running"
    /\ peer.elState = "OPEN"
    /\ LET b64 == ExtractAudio(msg)
           frames == IF b64 # <<>> THEN EnqueueTable[b64] ELSE <<>>
       IN  /\ frames # <<>> => peer.enqueued = <<>>
           /\ peer' = [peer EXCEPT
                         !.convoReady = IF ~@ /\ IsInitiationMetadata(msg) THEN TRUE ELSE @,
                         !.outQueue = @ \o frames,
                         !.enqueued = @ \o frames]
    /\ last' = [h |-> "peer", ev |-> "elMessage"]
    /\ UNCHANGED own

\* connection.on("message") of the second connection: start and stop.
PeerTwilioMessage(data) ==
    /\ peer.telState = "OPEN"
    /\ peer.pc = "running"
    /\ peer' = CASE data.event = "start" /\ data.hasStart ->
                       [peer EXCEPT !.streamSid = data.startSid,
                                    !.pacerTimer = IF @ THEN @ ELSE TRUE]
                 [] data.event = "stop" ->
                       [peer EXCEPT !.pacerTimer = IF ~@ THEN @ ELSE FALSE]
                 [] OTHER -> peer
    /\ last' = [h |-> "peer", ev |-> data.event]
    /\ UNCHANGED own

\* The pacer interval callback of the second connection.
PeerPacerTick ==
    /\ peer.pacerTimer
    /\ peer' = IF peer.telState # "OPEN" \/ peer.streamSid = Null \/ peer.outQueue = <<>>
               THEN peer
               ELSE [peer EXCEPT
                       !.outQueue = Tail(@),
                       !.telSent = Append(@, TelMedia(peer.streamSid, Head(peer.outQueue)))]
    /\ last' = [h |-> "peer", ev |-> "pacerTick"]
    /\ UNCHANGED own

\* connection "close" of the second connection.
PeerTwilioClose ==
    /\ peer.telState = "OPEN"
    /\ peer' = [peer EXCEPT !.telState = "CLOSED",
                            !.pacerTimer = IF peer.pc = "running" THEN FALSE ELSE @]
    /\ last' = [h |-> "peer", ev |-> "twilioClose"]
    /\ UNCHANGED own

\* ------------------------------------------------- audio helpers alone

\* Everything but `call` and `last`.
connections == <<pc, telState, elState, outQueue, streamSid, stats, pacerTimer,
                 pacerIntervals, statsTimer, convoReady, elReadyFallbackTimer, dynVars,
                 peer, telSent, elSent, chunkNo, enqueued, dropped>>

\* Raw buffers of every length up to MaxRawLen.
RawBuffers == {Raw(1, L) : L \in 0..MaxRawLen}

\* enqueueELBase64 called with the base64 text of buf on an empty queue:
\* frames is what it pushed.  A run makes one helper call.
CallEnqueue(buf) ==
    /\ call.fn = "none"
    /\ call' = [fn |-> "enqueueELBase64", arg |-> buf,
                frames |-> enqueueELBase64(B64Encode(buf))]
    /\ last' = [h |-> "call"]
    /\ UNCHANGED connections

\* ensureRawUlawBase64 called with the base64 text of a well-formed WAV.
CallEnsureWav(w) ==
    /\ call.fn = "none"
    /\ call' = [fn |-> "ensureRawUlawBase64", src |-> "wav", arg |-> WavFile(w), wav |-> w,
                ret |-> ensureRawUlawBase64(B64Encode(WavFile(w)))]
    /\ last' = [h |-> "call"]
    /\ UNCHANGED connections

\* ensureRawUlawBase64 called with the base64 text of any other buffer.
CallEnsure(buf) ==
    /\ call.fn = "none"
    /\ call' = [fn |-> "ensureRawUlawBase64", src |-> "bytes", arg |-> buf,
                wav |-> [layout |-> <<>>, tag |-> -1, x |-> <<>>],
                ret |-> ensureRawUlawBase64(B64Encode(buf))]
    /\ last' = [h |-> "call"]
    /\ UNCHANGED connections

\* ------------------------------------------------------- specification

Next ==
    \/ \E why \in {"signedUrl", "construct"} : InitFails(why)
    \/ InitOk
    \/ PacerTick(FALSE)
    \/ StatsTick
    \/ ELOpen
    \/ \E msg \in ELMessages : ELMessage(msg)
    \/ FallbackTimerFires
    \/ ELError
    \/ ELClose
    \/ \E data \in TwilioMessages(chunkNo + 1) : TwilioMessage(data)
    \/ TwilioClose
    \/ TwilioError

Spec == Init /\ [][Next]_vars

\* An armed setTimeout fires unless clearTimeout cancels it first.
FairSpec == Spec /\ WF_vars(FallbackTimerFires)

\* The messages that start, feed and stop the pacer.
PacerFeed ==
    { [ELBase EXCEPT !.type = "audio", !.audio_event = AudioA],
      [ELBase EXCEPT !.agent_audio_chunk = AudioB] }

PacerControl ==
    { [TwBase EXCEPT !.event = "start", !.hasStart = TRUE, !.startSid = "CA123"],
      [TwBase EXCEPT !.event = "stop"] }

\* The session around a pacer whose connection.send can throw.
FaultNext ==
    \/ InitOk
    \/ ELOpen
    \/ \E msg \in PacerFeed : ELMessage(msg)
    \/ \E data \in PacerControl : TwilioMessage(data)
    \/ \E threw \in BOOLEAN : PacerTick(threw)
    \/ FallbackTimerFires
    \/ TwilioClose

FaultSpec == Init /\ [][FaultNext]_vars

\* The session around the pacer with its interval firing for as long as it is
\* live: setInterval runs the callback every FRAME_INTERVAL_MS until
\* clearInterval.  The telephony side sends start and stop; either socket can
\* close or fail.
DrainNext ==
    \/ InitOk
    \/ ELOpen
    \/ \E msg \in PacerFeed : ELMessage(msg)
    \/ \E data \in PacerControl : TwilioMessage(data)
    \/ PacerTick(FALSE)
    \/ ELClose
    \/ TwilioError
    \/ TwilioClose

DrainSpec == Init /\ [][DrainNext]_vars /\ WF_vars(PacerTick(FALSE))

\* The session fed with agent audio that arrives inside containers.
ContainerFeed == {[ELBase EXCEPT !.type = "audio", !.audio_event = b] : b \in ContainerPayloads}

ContainerNext ==
    \/ InitOk
    \/ ELOpen
    \/ \E msg \in ContainerFeed : ELMessage(msg)
    \/ \E data \in PacerControl : TwilioMessage(data)
    \/ PacerTick(FALSE)

ContainerSpec == Init /\ [][ContainerNext]_vars

\* Two connections served by the same process, their callbacks interleaved
\* by the event loop.
TwoNext ==
    \/ InitOk
    \/ ELOpen
    \/ \E msg \in PacerFeed : ELMessage(msg)
    \/ \E data \in PacerControl : TwilioMessage(data)
    \/ PacerTick(FALSE)
    \/ TwilioClose
    \/ PeerInitOk
    \/ PeerELOpen
    \/ \E msg \in PeerFeed : PeerELMessage(msg)
    \/ \E data \in PeerControl : PeerTwilioMessage(data)
    \/ PeerPacerTick
    \/ PeerTwilioClose

TwoSpec == Init /\ [][TwoNext]_vars

\* The audio helpers called on their own, one input at a time.
HelperNext ==
    \/ \E buf \in RawBuffers : CallEnqueue(buf)
    \/ \E w \in WavCases : CallEnsureWav(w)
    \/ \E buf \in OtherBuffers : CallEnsure(buf)

HelperSpec == Init /\ [][HelperNext]_vars

\* -------------------------------------------------------------- claims

CeilDiv(n, d) == (n + d - 1) \div d

IsRaw(buf) == ~(Len(buf) >= 4 /\ SubSeq(buf, 1, 4) = RIFF)

\* The bytes of each payload the agent can send.
RawOf == [b \in AudioPayloads |-> B64Decode(b)]

RECURSIVE ConcatDecoded(_)
ConcatDecoded(frames) ==
    IF frames = <<>> THEN <<>>
    ELSE FrameRaw[Head(frames)] \o ConcatDecoded(Tail(frames))

\* C1: a telephony media event handled while convoReady is false never
\* reaches the agent socket: no user_audio_chunk message ever sent, then or
\* later, carries the bytes of a payload that arrived before the gate opened.
C1_DroppedNeverForwarded ==
    \A i \in 1..Len(elSent) :
        elSent[i].kind = "user_audio_chunk" =>
            \A p \in dropped : B64Decode(elSent[i].chunk) # B64Decode(p)

\* A payload reached the handler while the agent socket was open and only the
\* gate was closed, and the gate has opened since.
C1_Witness ==
    /\ dropped # {}
    /\ pc = "running"
    /\ elState = "OPEN"
    /\ convoReady
    /\ elSent # <<>>

\* C2: a step that sends to the telephony socket sends exactly one message:
\* the frame at the front of outQueue, as event=media addressed to the
\* current streamSid, and removes it from the queue; and handling an agent
\* audio message of L raw bytes appends, behind the frames already queued,
\* ceil(L/160) frames whose bytes in order are the payload's bytes.
C2_PacerFifo ==
    [][ /\ telSent' # telSent =>
            /\ outQueue # <<>>
            /\ streamSid # Null
            /\ telSent' = Append(telSent, TelMedia(streamSid, Head(outQueue)))
            /\ outQueue' = Tail(outQueue)
        /\ (outQueue' # outQueue /\ telSent' = telSent) =>
            /\ last'.h = "elMessage"
            /\ LET raw == RawOf[ExtractAudio(last'.msg)]
                   old == Len(outQueue)
               IN  IsRaw(raw) =>
                     /\ Len(outQueue') = old + CeilDiv(Len(raw), 160)
                     /\ SubSeq(outQueue', 1, old) = outQueue
                     /\ ConcatDecoded(SubSeq(outQueue', old + 1, Len(outQueue'))) = raw
      ]_vars

\* The 400-byte payload went out as three media messages of 160, 160 and 80
\* bytes, all addressed to the stream the start event named.
C2_Witness ==
    /\ Len(telSent) = 3
    /\ \A i \in 1..3 : telSent[i].event = "media" /\ telSent[i].streamSid = "CA123"
    /\ [i \in 1..3 |-> Len(B64Decode(telSent[i].payload))] = <<160, 160, 80>>
    /\ ConcatDecoded([i \in 1..3 |-> telSent[i].payload]) = Raw(1, 400)
    /\ outQueue = <<>>

\* C3: a telephony close event is followed by close being called on the
\* agent socket if that socket exists and is still open: the step in which the
\* telephony socket becomes CLOSED takes an OPEN agent socket out of OPEN.
C3_TelephonyCloseClosesAgent ==
    [][(telState # "CLOSED" /\ telState' = "CLOSED" /\ elState = "OPEN")
          => elState' \in {"CLOSING", "CLOSED"}]_vars

\* C4: when the agent socket closes or emits an error, the session tears
\* down: after the handler has run the pacer is stopped and the telephony
\* socket is no longer open.
C4_AgentCloseTearsDown ==
    [][last'.h \in {"elError", "elClose"}
          => (~pacerTimer' /\ telState' # "OPEN")]_vars

\* C5: once either socket has closed, outQueue is never mutated again and
\* no further message is sent on either socket.
C5_QuietAfterTeardown ==
    [][(telState = "CLOSED" \/ elState = "CLOSED")
          => (outQueue' = outQueue /\ telSent' = telSent /\ elSent' = elSent)]_vars

\* C6: handling an agent message of type interruption sends exactly one
\* event=clear message, addressed to the current streamSid, to the telephony
\* socket.
C6_InterruptionSendsClear ==
    [][(last'.h = "elMessage" /\ last'.msg.json /\ last'.msg.type = "interruption")
          => telSent' = Append(telSent, TelClear(streamSid))]_vars

\* C7: handling an agent ping message carrying event_id E sends exactly one
\* pong with event_id E on the agent socket and nothing on the telephony
\* socket.
C7_PingAnsweredByPong ==
    [][(last'.h = "elMessage" /\ last'.msg.json /\ last'.msg.type = "ping"
            /\ last'.msg.ping_id # 0)
          => (/\ elSent' = Append(elSent, ElPong(last'.msg.ping_id))
              /\ telSent' = telSent)]_vars

\* C8: convoReady only ever goes from false to true: no step resets it, and
\* the one step that sets it is the fallback timer firing or the handling of
\* an initiation-metadata message; every later one leaves it as it is.
C8_ReadyLatch ==
    [][ /\ convoReady => convoReady'
        /\ (~convoReady /\ convoReady') =>
              \/ last'.h = "fallbackTimer"
              \/ (last'.h = "elMessage" /\ last'.msg.json
                    /\ IsInitiationMetadata(last'.msg))
      ]_vars

\* The timer opened the gate, and a metadata message handled afterwards found
\* it open.
C8_Witness ==
    /\ convoReady
    /\ elReadyFallbackTimer = "fired"
    /\ last.h = "elMessage"
    /\ last.msg.json
    /\ IsInitiationMetadata(last.msg)

\* C9 as stated: in every session in which the agent connection target was
\* obtained, convoReady eventually becomes true.
C9_GateEventuallyOpens == (pc = "running") ~> convoReady

\* C9, amended: once armed, the fallback timer opens the gate unless an agent
\* socket error or close cancels it first.
C9_GateOpensUnlessCancelled ==
    (elReadyFallbackTimer = "pending") ~> (convoReady \/ elReadyFallbackTimer = "cleared")

\* The timer opened the gate of a session whose agent socket never opened, so
\* no metadata message can have arrived.
C9_Witness ==
    /\ convoReady
    /\ elReadyFallbackTimer = "fired"
    /\ elState = "CONNECTING"
    /\ last.h = "fallbackTimer"

\* C10 as stated: no message is sent to the telephony socket while
\* convoReady is false.
C10_NoMediaBeforeReady == [][telSent' # telSent => convoReady]_vars

\* C10, amended: a message is sent to the telephony socket only by a tick of
\* the running pacer, which the telephony start event starts; the pacer does
\* not consult convoReady.
C10_MediaOnlyFromRunningPacer ==
    [][telSent' # telSent => (pacerTimer /\ last'.h = "pacerTick")]_vars

\* Agent audio was delivered to the telephony socket while the gate was still
\* closed.
C10_Witness ==
    /\ telSent # <<>>
    /\ ~convoReady
    /\ pacerTimer

\* C11: a pacer tick that finds streamSid unset, outQueue empty or the
\* telephony socket not open sends nothing and leaves outQueue as it is; a
\* frame leaves the queue or reaches the telephony socket only while
\* streamSid is set, which only a start event does; and every event=media
\* message sent to the telephony socket carries a set streamSid.
C11_PacerIdleUntilStart ==
    [][ /\ (last'.h = "pacerTick"
              /\ (streamSid = Null \/ outQueue = <<>> \/ telState # "OPEN"))
           => (telSent' = telSent /\ outQueue' = outQueue)
        /\ (Len(outQueue') < Len(outQueue) \/ telSent' # telSent) => streamSid # Null
        /\ (streamSid = Null /\ streamSid' # Null)
           => (last'.h = "twilioMessage" /\ last'.msg.event = "start")
        /\ \A i \in 1..Len(telSent') :
              telSent'[i].event = "media" => telSent'[i].streamSid # Null
      ]_vars

\* The pacer is running on an open telephony socket with frames queued, a
\* tick has just run, and because the start event named no streamSid nothing
\* was dequeued or sent.
C11_Witness ==
    /\ last.h = "pacerTick"
    /\ pacerTimer
    /\ telState = "OPEN"
    /\ streamSid = Null
    /\ outQueue # <<>>
    /\ outQueue = enqueued
    /\ telSent = <<>>

\* C12: outQueue grows only in the handling of an agent audio message, which
\* appends behind the frames already queued, and shrinks only in a pacer tick,
\* which removes the front frame: telephony events, socket close and error
\* handlers and the fallback timer leave it exactly as it is.
C12_QueueWriters ==
    [][outQueue' # outQueue =>
          \/ /\ last'.h = "elMessage"
             /\ last'.msg.json
             /\ ExtractAudio(last'.msg) # <<>>
             /\ Len(outQueue') > Len(outQueue)
             /\ SubSeq(outQueue', 1, Len(outQueue)) = outQueue
          \/ /\ last'.h = "pacerTick"
             /\ outQueue' = Tail(outQueue)
      ]_vars

\* A stop event was handled with frames still queued, after the pacer had
\* sent one and the fallback timer had fired.
C12_Witness ==
    /\ last.h = "twilioMessage"
    /\ last.msg.event = "stop"
    /\ last.pacing
    /\ outQueue # <<>>
    /\ telSent # <<>>
    /\ elReadyFallbackTimer = "fired"

\* C13: at most one pacer interval is live at any time, and it is the one
\* pacerTimer names: a start event handled while the pacer is running creates
\* no second one, and no step sends more than one frame.
C13_SinglePacerTimer ==
    [][ /\ pacerIntervals' <= 1
        /\ pacerTimer' <=> (pacerIntervals' = 1)
        /\ (last'.h = "twilioMessage" /\ last'.msg.event = "start" /\ pacerTimer)
           => (pacerTimer' /\ pacerIntervals' = pacerIntervals)
        /\ Len(telSent') <= Len(telSent) + 1
      ]_vars

\* A start event was handled while the pacer was already running.
C13_Witness ==
    /\ last.h = "twilioMessage"
    /\ last.msg.event = "start"
    /\ last.msg.hasStart
    /\ last.pacing
    /\ pacerTimer
    /\ pacerIntervals = 1

C15_TimersCancelledAtTeardown ==
    (telState = "CLOSED" \/ elState = "CLOSED")
        => (~pacerTimer /\ pacerIntervals = 0 /\ elReadyFallbackTimer # "pending")

\* C16: a pacer tick whose send throws keeps the pacer timer active and
\* changes neither socket; the frame it had shifted is gone and nothing was
\* sent; and the tick that follows it sends the next queued frame.
C16_SendErrorCaught ==
    [][ /\ (last'.h = "pacerTick" /\ last'.threw)
           => /\ pacerTimer'
              /\ pacerIntervals' = pacerIntervals
              /\ pacerIntervals' = 1
              /\ telState' = telState
              /\ elState' = elState
              /\ telSent' = telSent
              /\ outQueue' = Tail(outQueue)
        /\ (/\ last.h = "pacerTick" /\ last.threw
            /\ last'.h = "pacerTick" /\ ~last'.threw
            /\ outQueue # <<>> /\ telState = "OPEN" /\ streamSid # Null)
           => /\ telSent' = Append(telSent, TelMedia(streamSid, Head(outQueue)))
              /\ outQueue' = Tail(outQueue)
      ]_vars

\* The send of the first frame threw and a later tick sent the second one.
C16_Witness ==
    /\ Len(enqueued) >= 2
    /\ telSent = <<TelMedia("CA123", enqueued[2])>>
    /\ outQueue = SubSeq(enqueued, 3, Len(enqueued))
    /\ last.h = "pacerTick"
    /\ ~last.threw
    /\ pacerTimer

\* C17: in a session whose connection target could not be obtained the
\* telephony socket is no longer open, no agent socket exists, the pacer was
\* never started, convoReady is false, no stream is known, nothing is queued
\* and nothing was sent on either socket.
C17_SignedUrlFailure ==
    pc = "failed" =>
        /\ telState # "OPEN"
        /\ elState = "NONE"
        /\ ~pacerTimer
        /\ pacerIntervals = 0
        /\ ~convoReady
        /\ elReadyFallbackTimer = "unset"
        /\ streamSid = Null
        /\ outQueue = <<>>
        /\ telSent = <<>>
        /\ elSent = <<>>

\* getSignedUrl() rejected after the caller had already sent audio, and the
\* telephony socket has closed.
C17_Witness ==
    /\ pc = "failed"
    /\ last.h = "twilioClose"
    /\ telState = "CLOSED"
    /\ chunkNo > 0

\* C18: the telephony error handler calls close on the agent socket: once it
\* has run, an agent socket that was connecting or open is closing.
C18_TelephonyErrorClosesAgent ==
    [][last'.h = "twilioError"
          => (/\ elState # "NONE"
              /\ elState \in {"CONNECTING", "OPEN"} => elState' = "CLOSING"
              /\ elState \in {"CLOSING", "CLOSED"} => elState' = elState)]_vars

\* The telephony socket failed in mid-conversation and the agent socket, open
\* until then, is closing.
C18_Witness ==
    /\ last.h = "twilioError"
    /\ elState = "CLOSING"
    /\ convoReady
    /\ Len(elSent) > 1

\* C19: a message on either socket that is not JSON, and a telephony message
\* whose event is none of start, media and stop, changes nothing of the
\* session: no field, no timer, no socket state, and nothing is sent; the
\* handlers of later messages therefore find the session as it was.
C19_MalformedIgnored ==
    [][ ( \/ (last'.h = "elMessage" /\ ~last'.msg.json)
          \/ (last'.h = "twilioMessage"
                /\ (~last'.msg.json \/ last'.msg.event \notin {"start", "media", "stop"})) )
          => UNCHANGED session ]_vars

\* A telephony message of an unknown event was handled in mid-conversation,
\* with the pacer running and frames queued.
C19_Witness ==
    /\ last.h = "twilioMessage"
    /\ last.msg.json
    /\ last.msg.event = "mark"
    /\ pacerTimer
    /\ convoReady
    /\ outQueue # <<>>
    /\ telSent # <<>>
    /\ elState = "OPEN"

\* C20: after an agent message has been handled, convoReady is true if the
\* message has type or event conversation_initiation_metadata or carries a
\* conversation_initiation_metadata or conversation_initiation_metadata_event
\* field, whichever of the four it is, and is what it was before otherwise.
C20_MetadataShapesOpenGate ==
    [][(last'.h = "elMessage" /\ last'.msg.json)
          => LET m == last'.msg
             IN  IF \/ m.type = "conversation_initiation_metadata"
                    \/ m.event = "conversation_initiation_metadata"
                    \/ m.cim
                    \/ m.cime
                 THEN convoReady'
                 ELSE convoReady' = convoReady]_vars

\* The gate was opened, before the fallback timer fired, by a message that has
\* only the conversation_initiation_metadata_event field.
C20_Witness ==
    /\ convoReady
    /\ elReadyFallbackTimer = "pending"
    /\ last.h = "elMessage"
    /\ last.msg.cime
    /\ last.msg.type = ""
    /\ last.msg.event = ""

\* The frames of a queue or log, as a set.
FrameSet(frames) == {frames[i] : i \in 1..Len(frames)}

\* C21: of two concurrent connections, a callback of one leaves every
\* variable, timer, socket and send log of the other as it was, and every
\* message sent on a connection's telephony socket carries a frame that that
\* connection's own agent message handler enqueued, addressed to its own stream.
C21_SessionsIsolated ==
    [][ /\ last'.h = "peer" => UNCHANGED own
        /\ last'.h # "peer" => peer' = peer
        /\ \A i \in 1..Len(telSent') :
              /\ telSent'[i].payload \in FrameSet(enqueued')
              /\ telSent'[i].payload \notin FrameSet(peer'.enqueued)
              /\ telSent'[i].streamSid = "CA123"
        /\ \A i \in 1..Len(peer'.telSent) :
              /\ peer'.telSent[i].payload \in FrameSet(peer'.enqueued)
              /\ peer'.telSent[i].payload \notin FrameSet(enqueued')
              /\ peer'.telSent[i].streamSid = "CA456"
      ]_vars

\* Both connections are streaming: each pacer runs and each has delivered
\* agent audio to its own telephony socket.
C21_Witness ==
    /\ pacerTimer
    /\ peer.pacerTimer
    /\ telSent # <<>>
    /\ peer.telSent # <<>>
    /\ outQueue # <<>>
    /\ peer.outQueue # <<>>

\* C22: the first message on the agent socket is the
\* conversation_initiation_client_data message with the four dynamic
\* variables of the request, no later message is one, it has been sent once
\* the agent socket is or has been open, and nothing is sent before that.
C22_ClientDataOnceAndFirst ==
    /\ elSent # <<>> =>
          /\ elSent[1] = ElClientData(dynVars)
          /\ DOMAIN elSent[1].vars = {"Date", "Time", "Name", "Contact_Details"}
    /\ \A i \in 2..Len(elSent) : elSent[i].kind = "user_audio_chunk"
    /\ elState = "OPEN" => elSent # <<>>
    /\ elState \in {"NONE", "CONNECTING"} => elSent = <<>>

\* Caller audio was forwarded on the agent socket, behind the client data.
C22_Witness ==
    /\ Len(elSent) >= 2
    /\ elSent[1].kind = "conversation_initiation_client_data"
    /\ elSent[1].vars.Time = "09:30"
    /\ elSent[1].vars.Name = "Caller"
    /\ elSent[2].kind = "user_audio_chunk"

RECURSIVE DecodeAll(_)
DecodeAll(frames) ==
    IF frames = <<>> THEN <<>>
    ELSE B64Decode(Head(frames)) \o DecodeAll(Tail(frames))

\* C23: enqueueELBase64 on a raw buffer of L bytes pushes ceil(L/160)
\* frames, none for L = 0; every frame but the last decodes to 160 bytes and
\* the last to the 1..160 bytes that remain.
C23_FrameCountAndSizes ==
    (call.fn = "enqueueELBase64" /\ IsRaw(call.arg)) =>
        LET L == Len(call.arg)
            n == Len(call.frames)
        IN  /\ n = CeilDiv(L, 160)
            /\ L = 0 => n = 0
            /\ \A i \in 1..n :
                  LET len == Len(B64Decode(call.frames[i]))
                  IN  /\ i < n => len = 160
                      /\ i = n => (len = L - 160 * (n - 1) /\ len >= 1 /\ len <= 160)

\* A buffer of 321 bytes went out as frames of 160, 160 and 1 bytes.
C23_Witness ==
    /\ call.fn = "enqueueELBase64"
    /\ Len(call.arg) = 321
    /\ [i \in 1..Len(call.frames) |-> Len(B64Decode(call.frames[i]))] = <<160, 160, 1>>

\* C24: the frames enqueueELBase64 pushes for a raw buffer, decoded and
\* concatenated in push order, are the buffer.
C24_FramesConcatToBuffer ==
    (call.fn = "enqueueELBase64" /\ IsRaw(call.arg)) => DecodeAll(call.frames) = call.arg

\* A buffer that needed three frames, the last one partial, came back whole.
C24_Witness ==
    /\ call.fn = "enqueueELBase64"
    /\ Len(call.arg) = 330
    /\ Len(call.frames) = 3
    /\ DecodeAll(call.frames) = Raw(1, 330)

\* The payloads whose normalization must fail, and the frames each was cut into.
UnusablePayloads == {c.b64 : c \in {d \in ContainerCases : d.kind \in {"mp3", "ogg", "wav-other"}}}

UnusableFrames == UNION {FrameSet(EnqueueTable[b]) : b \in UnusablePayloads}

\* C25: handling an agent audio message whose payload starts with an MP3 or
\* Ogg signature, or is a WAV whose format tag is not 7, appends nothing to
\* outQueue, and no frame cut from such a payload is ever sent to the
\* telephony socket.
C25_UnusableAudioDropped ==
    [][ /\ (last'.h = "elMessage" /\ last'.msg.json
              /\ ExtractAudio(last'.msg) \in UnusablePayloads)
           => (outQueue' = outQueue /\ enqueued' = enqueued)
        /\ \A i \in 1..Len(telSent') : telSent'[i].payload \notin UnusableFrames
      ]_vars

\* The frames of the data bytes X of each tag-7 WAV payload.
WavFramesOf ==
    [b \in {c.b64 : c \in {d \in ContainerCases : d.kind = "wav"}} |->
        SliceFrames((CHOOSE c \in ContainerCases : c.b64 = b).x, 0)]

\* C26: handling an agent audio message whose payload is a WAV with data
\* bytes X appends exactly the frames of X to outQueue, whatever the chunk
\* layout: ceil(|X| / 160) frames whose bytes are those of X.
C26_WavStrippedToData ==
    [][(last'.h = "elMessage" /\ last'.msg.json
          /\ ExtractAudio(last'.msg) \in DOMAIN WavFramesOf)
          => outQueue' = outQueue \o WavFramesOf[ExtractAudio(last'.msg)]]_vars

\* C27: for a well-formed WAV with a fmt chunk and a data chunk holding X,
\* in either order and among other chunks, ensureRawUlawBase64 raises nothing,
\* returns ok = true with text that decodes to X when the format tag is 7,
\* and returns ok = false when the tag is anything else.
C27_WavDataExtracted ==
    (call.fn = "ensureRawUlawBase64" /\ call.src = "wav") =>
        /\ ~call.ret.threw
        /\ call.wav.tag = 7 => (call.ret.ok /\ B64Decode(call.ret.b64) = call.wav.x)
        /\ call.wav.tag # 7 => (~call.ret.ok /\ call.ret.b64 = <<>>)

\* A tag-7 WAV with the data chunk first, seven data bytes and their pad
\* byte, then a LIST chunk, then fmt: the seven bytes came back.
C27_Witness ==
    /\ call.fn = "ensureRawUlawBase64"
    /\ call.src = "wav"
    /\ call.wav.layout = <<"data", "LIST", "fmt">>
    /\ call.wav.tag = 7
    /\ call.ret.ok
    /\ B64Decode(call.ret.b64) = Raw(6, 7)

\* The signatures as C28 words them.
StartsWithMp3(buf) ==
    \/ (Len(buf) >= 3 /\ SubSeq(buf, 1, 3) = ID3)
    \/ (Len(buf) >= 2 /\ buf[1] = 255 /\ buf[2] >= 224)

StartsWithOgg(buf) == Len(buf) >= 4 /\ SubSeq(buf, 1, 4) = OGGS

StartsWithWav(buf) == Len(buf) >= 4 /\ SubSeq(buf, 1, 4) = RIFF

\* C28 as stated: every input whose bytes start with an MP3 signature or
\* with OggS is refused with no bytes, and every non-empty input that starts
\* with none of the WAV, MP3 and Ogg signatures is returned unchanged.
C28_SignaturesRefused ==
    (call.fn = "ensureRawUlawBase64" /\ ~StartsWithWav(call.arg)) =>
        /\ (StartsWithMp3(call.arg) \/ StartsWithOgg(call.arg))
              => (~call.ret.threw /\ ~call.ret.ok /\ call.ret.b64 = <<>>)
        /\ (call.arg # <<>> /\ ~StartsWithMp3(call.arg) /\ ~StartsWithOgg(call.arg))
              => (~call.ret.threw /\ call.ret.ok /\ call.ret.b64 = B64Encode(call.arg))

\* C28, amended: the MP3 test is made on inputs of three bytes or more; a
\* two-byte input is returned unchanged whatever its bytes.
C28_SignaturesRefusedFromThreeBytes ==
    (call.fn = "ensureRawUlawBase64" /\ ~StartsWithWav(call.arg)) =>
        LET refused == \/ (Len(call.arg) >= 3 /\ StartsWithMp3(call.arg))
                       \/ StartsWithOgg(call.arg)
        IN  /\ refused => (~call.ret.threw /\ ~call.ret.ok /\ call.ret.b64 = <<>>)
            /\ (call.arg # <<>> /\ ~refused)
                  => (~call.ret.threw /\ call.ret.ok /\ call.ret.b64 = B64Encode(call.arg))

\* The two bytes 0xFF 0xFB, an MP3 frame sync, came back as raw samples.
C28_Witness ==
    /\ call.fn = "ensureRawUlawBase64"
    /\ call.arg = <<255, 251>>
    /\ call.ret.ok
    /\ B64Decode(call.ret.b64) = <<255, 251>>

\* C29: ensureRawUlawBase64 returns a result for every input and never
\* raises an exception.
C29_NormalizerTotal ==
    call.fn = "ensureRawUlawBase64" => ~call.ret.threw

\* C30: every start event the telephony side sends on its open socket,
\* whenever it arrives, is captured: after it streamSid is the stream it
\* names and the pacer is running.
C30_StartNeverLost ==
    [][(last'.h = "twilioMessage" /\ last'.msg.json /\ last'.msg.event = "start"
          /\ last'.msg.hasStart /\ last'.msg.startSid # Null)
          => (streamSid' = last'.msg.startSid /\ pacerTimer' /\ pacerIntervals' = 1)]_vars

\* The user_audio_chunk messages among those sent on the agent socket.
UserAudioSent == {i \in 1..Len(elSent) : elSent[i].kind = "user_audio_chunk"}

\* C31: a telephony media event handled while the gate is open and the agent
\* socket is open puts exactly one user_audio_chunk message, carrying the
\* event's payload bytes, on the agent socket; and the number of
\* user_audio_chunk messages sent always equals stats.twilioMediaInFrames.
C31_OneChunkPerMediaEvent ==
    [][ /\ (last'.h = "twilioMessage" /\ last'.msg.json /\ last'.msg.event = "media"
              /\ last'.msg.hasMedia /\ pc = "running" /\ GateOpen)
           => /\ Len(elSent') = Len(elSent) + 1
              /\ SubSeq(elSent', 1, Len(elSent)) = elSent
              /\ elSent'[Len(elSent')].kind = "user_audio_chunk"
              /\ B64Decode(elSent'[Len(elSent')].chunk) = B64Decode(last'.msg.payload)
        /\ Cardinality(UserAudioSent)' = stats'.twilioMediaInFrames
      ]_vars

C33_SendsOnlyOnOpenSockets ==
    [][ /\ telSent' # telSent => (telState = "OPEN" /\ telState' = "OPEN")
        /\ elSent' # elSent => elState' = "OPEN"
        /\ (elSent' # elSent /\ last'.h = "twilioMessage") => elState = "OPEN"
      ]_vars

\* Caller audio arrived with the gate open and the agent socket no longer
\* open, after the pacer had delivered frames: nothing went to the agent.
C33_Witness ==
    /\ last.h = "twilioMessage"
    /\ last.msg.event = "media"
    /\ last.msg.hasMedia
    /\ convoReady
    /\ elState \in {"CLOSING", "CLOSED"}
    /\ Len(elSent) = 1
    /\ telSent # <<>>

\* s is x with some of its elements left out, the others in order.
RECURSIVE IsSubsequence(_, _)
IsSubsequence(s, x) ==
    IF s = <<>> THEN TRUE
    ELSE IF x = <<>> THEN FALSE
    ELSE IF Head(s) = Head(x) THEN IsSubsequence(Tail(s), Tail(x))
    ELSE IsSubsequence(s, Tail(x))

\* C34: every frame appended to outQueue is sent at most once.  The frames
\* still queued are the last ones enqueued, the frames sent are, in order,
\* among those that have left the queue, one message for each at most; a tick
\* whose send throws removes the frame and sends nothing, and the frame it
\* lost is neither queued nor sent afterwards.
C34_AtMostOnce ==
    [][ LET left == Len(enqueued') - Len(outQueue')
        IN  /\ left >= 0
            /\ outQueue' = SubSeq(enqueued', left + 1, Len(enqueued'))
            /\ Len(telSent') <= left
            /\ IsSubsequence([i \in 1..Len(telSent') |-> telSent'[i].payload],
                              SubSeq(enqueued', 1, left))
            /\ (last'.h = "pacerTick" /\ last'.threw)
                  => /\ outQueue # <<>>
                     /\ outQueue' = Tail(outQueue)
                     /\ telSent' = telSent
                     /\ Len(telSent') < left
      ]_vars

\* The first frame was sent, the send of the second threw and the frame is
\* gone, and the third is still queued.
C34_Witness ==
    /\ Len(enqueued) = 3
    /\ telSent = <<TelMedia("CA123", enqueued[1])>>
    /\ outQueue = <<enqueued[3]>>
    /\ last.h = "pacerTick"
    /\ last.threw

\* C35: handling an agent interruption message leaves outQueue, the pacer
\* and the stream as they were and sends nothing to the telephony socket; the
\* tick that follows it on an open socket sends the frame that was at the
\* front of the queue before the interruption and leaves the rest in order.
C35_InterruptionKeepsQueue ==
    [][ /\ (last'.h = "elMessage" /\ last'.msg.json /\ last'.msg.type = "interruption")
           => UNCHANGED <<outQueue, pacerTimer, pacerIntervals, streamSid, telSent>>
        /\ (/\ last.h = "elMessage" /\ last.msg.json /\ last.msg.type = "interruption"
            /\ last'.h = "pacerTick"
            /\ outQueue # <<>> /\ telState = "OPEN" /\ streamSid # Null)
           => /\ telSent' = Append(telSent, TelMedia(streamSid, Head(outQueue)))
              /\ outQueue' = Tail(outQueue)
      ]_vars

\* An interruption was handled in mid-stream: the pacer is running, one frame
\* has been sent and the others are still queued.
C35_Witness ==
    /\ last.h = "elMessage"
    /\ last.msg.type = "interruption"
    /\ pacerTimer
    /\ streamSid = "CA123"
    /\ telState = "OPEN"
    /\ Len(telSent) = 1
    /\ Len(outQueue) = 2
    /\ outQueue = SubSeq(enqueued, 2, 3)

====
